---- MODULE Spec2Model ----
\* Verification model of the HoneyShield threat scoring and alerting engine:
\* MLPhishingDetector (src/src/ml_phishing_detector.py), MLFirstAnalysisEngine
\* (src/src/ml_first_engine.py), AlertMonitor (src/src/alert_monitor.py),
\* AlertManager (src/src/alert_manager.py), SlackNotifier
\* (src/src/slack_notifier.py), the rule-based AnalysisEngine
\* (src/src/analysis_engine.py) and the alert operations of AlertDashboard
\* (src/src/dashboard.py).
EXTENDS Integers, Sequences, FiniteSets, TLC

\* ------------------------------------------------------------------ bounds
\* A classifier probability is modelled as p = k / PScale, k in 0..PScale.
PScale == 1000
\* Alert ids the uuid generator can produce (stands for the 16^8 hex tokens).
MaxId == 2
\* Rows the security_alerts table may hold at once.
MaxAlerts == 2
\* Rows ever inserted (the AUTOINCREMENT counter).
MaxCreated == 3
\* Seconds the database clock may advance.
MaxTime == 1
\* Atoms of the longest text handed to the feature extractor.
MaxTextLen == 3
\* Messages of the longest list handed to batch_analyze.
MaxBatch == 2
\* Entries of suspicious_keywords, and of high_risk_phrases, a message can hit.
MaxHits == 2
\* Hours the database clock may advance.
MaxHours == 1
\* Messages of the longest list a monitoring cycle scrapes.
MaxCycle == 2
\* Rows the messages table may hold.
MaxLogged == 3

VARIABLES
    is_trained,     \* MLPhishingDetector.is_trained
    vectorizer,     \* MLPhishingDetector.vectorizer: as constructed, or
                    \* fitted by a training run
    classifier,     \* MLPhishingDetector.classifier: None until fitted, then
                    \* Some(m), m the function from text to probability
    file,           \* models/advanced_phishing_detector.pkl: None or Some(bundle)
    seen,           \* what predict returned per probe text since the detector's
                    \* fitted state was last set
    model_loaded,   \* MLFirstAnalysisEngine.model_loaded
    alerts,         \* rows of table security_alerts, in rowid order
    seq,            \* sqlite_sequence: largest rowid ever used
    now,            \* CURRENT_TIMESTAMP, in seconds
    webhook_url,    \* SlackNotifier.webhook_url (SLACK_WEBHOOK_URL)
    slack,          \* AlertManager.slack: "none" or "configured"
    messages,       \* rows of table messages, in rowid order
    threats,        \* rows of table threats, in rowid order
    last            \* the last call: its inputs, its result, whether it raised

vars == <<is_trained, vectorizer, classifier, file, seen, model_loaded,
          alerts, seq, now, webhook_url, slack, messages, threats, last>>

\* --------------------------------------------------------------- values
\* Optional values: None is Python's None / SQL NULL, Some(x) a present value.
None == <<>>
Some(x) == <<x>>

AlertIds == 1..MaxId
Probs == 0..PScale
Tiers == {"LOW", "MEDIUM", "HIGH", "CRITICAL"}

\* Score edges around which the alerting pipeline is probed, as percentages:
\* the alert floor, which is also the MEDIUM limit, and the CRITICAL limit.
ProbeEdges == {40, 80}
\* Probabilities within one grid step of an edge, and the two extremes.
ProbeProbs ==
    {k \in Probs : \/ k = 0
                   \/ k = PScale
                   \/ \E e \in ProbeEdges :
                         /\ 100 * k - e * PScale <= 100
                         /\ e * PScale - 100 * k <= 100}

\* Model artifacts load_model may be pointed at: no file, the placeholder
\* bundle of fix_ml_model.py (is_trained False), a bundle written by save_model
\* after training.
Artifacts == {"missing", "placeholder", "trained"}

\* ------------------------------------------------------------------ texts
\* A text is a sequence of atoms: separators, words of the pattern tables,
\* a plain word and a link. No atom is a prefix of another, so two texts are
\* the same string only if they are the same sequence.
Atoms ==
    {" ", ".", "?", "!", "urgent", "VERIFY", "whatsapp", "money", "only",
     "everyone", "great", "hi", "http://x"}

AllTexts == UNION {[1..n -> Atoms] : n \in 0..MaxTextLen}

\* len(atom)
AtomLen(a) ==
    CASE a \in {" ", ".", "?", "!"} -> 1
      [] a = "hi" -> 2
      [] a = "only" -> 4
      [] a \in {"money", "great"} -> 5
      [] a \in {"urgent", "VERIFY"} -> 6
      [] a \in {"whatsapp", "everyone", "http://x"} -> 8

\* Characters of the atom for which isupper() holds.
AtomUpper(a) == IF a = "VERIFY" THEN 6 ELSE 0

\* atom.lower()
Lower(a) == IF a = "VERIFY" THEN "verify" ELSE a

\* str.split() separates words at whitespace.
IsSpaceNever(a) == FALSE
IsSpace(a) == a = " "
\* re.split(r'[.!?]+', text) separates sentences at runs of these.
IsStop(a) == a \in {".", "?", "!"}
\* The atom begins and ends with a \w character.
WordLike(a) == ~IsSpace(a) /\ ~IsStop(a)
IsLink(a) == a = "http://x"

\* max(n, 1)
Floor1Off(n) == n
Floor1(n) == IF n > 1 THEN n ELSE 1

RECURSIVE SumTo(_, _)
SumTo(f, n) == IF n = 0 THEN 0 ELSE f[n] + SumTo(f, n - 1)

\* len(text)
TextLength(text) ==
    SumTo([i \in 1..Len(text) |-> AtomLen(text[i])], Len(text))

\* sum(1 for c in text if c.isupper())
UpperCount(text) ==
    SumTo([i \in 1..Len(text) |-> AtomUpper(text[i])], Len(text))

\* text.split(): the maximal runs of non-space atoms. cur is the word being
\* read, acc the words read so far.
RECURSIVE SplitWords(_, _, _)
SplitWords(text, cur, acc) ==
    IF text = <<>>
    THEN IF cur = <<>> THEN acc ELSE Append(acc, cur)
    ELSE IF IsSpace(Head(text))
         THEN SplitWords(Tail(text), <<>>,
                         IF cur = <<>> THEN acc ELSE Append(acc, cur))
         ELSE SplitWords(Tail(text), Append(cur, Head(text)), acc)

Words(text) == SplitWords(text, <<>>, <<>>)

\* len(word)
WordLen(w) == TextLength(w)

\* re.split(r'[.!?]+', text): the pieces between runs of stops, empty pieces
\* included. insep holds while a run of stops is being read.
RECURSIVE SplitSentences(_, _, _, _)
SplitSentences(text, cur, acc, insep) ==
    IF text = <<>>
    THEN Append(acc, cur)
    ELSE IF IsStop(Head(text))
         THEN IF insep
              THEN SplitSentences(Tail(text), cur, acc, TRUE)
              ELSE SplitSentences(Tail(text), <<>>, Append(acc, cur), TRUE)
         ELSE SplitSentences(Tail(text), Append(cur, Head(text)), acc, FALSE)

Sentences(text) == SplitSentences(text, <<>>, <<>>, FALSE)

\* s.strip() is not empty
NotBlank(s) == \E i \in 1..Len(s) : ~IsSpace(s[i])

\* The alternatives of the regular expressions of extract_advanced_features.
UrgencyPatterns ==
    {"urgent", "immediately", "asap", "quick", "fast", "now", "instant",
     "right away", "hurry"}
AuthorityPatterns ==
    {"official", "government", "legal", "compliance", "required",
     "mandatory", "authorized", "security", "verify"}
ScarcityPatterns ==
    {"limited", "only", "exclusive", "last chance", "final", "ending soon",
     "never again"}
SocialProofPatterns ==
    {"everyone", "people", "others", "join", "many", "most", "popular"}
PersonalInfoPatterns ==
    {"phone", "number", "email", "address", "bank", "account", "password",
     "verify", "confirm", "details"}
FinancialPatterns ==
    {"money", "payment", "investment", "profit", "fund", "cash", "price",
     "fee", "cost"}
PlatformPatterns ==
    {"whatsapp", "telegram", "signal", "wechat", "viber", "skype",
     "email me", "call me", "text me"}
PositiveEmotion ==
    {"great", "amazing", "wonderful", "impressive", "fantastic",
     "excellent", "perfect"}
NegativeEmotion ==
    {"urgent", "suspended", "terminated", "legal", "consequences",
     "problem", "issue"}

\* \b on both sides of the atom at position i.
Bounded(text, i) ==
    /\ i = 1 \/ ~WordLike(text[i - 1])
    /\ i = Len(text) \/ ~WordLike(text[i + 1])

\* len(re.findall(r'\b(...)\b', text_lower))
PatternCount(text, pattern) ==
    Cardinality({i \in 1..Len(text) :
                    Lower(text[i]) \in pattern /\ Bounded(text, i)})

\* text.count(c)
CharCount(text, c) == Cardinality({i \in 1..Len(text) : text[i] = c})

\* len(re.findall(r'http[s]?://(?:...)+', text)): a match runs on to the next
\* whitespace, so a word counts once however many links it holds.
LinkCount(text) ==
    Cardinality({j \in 1..Len(Words(text)) :
                    \E i \in 1..Len(Words(text)[j]) :
                       IsLink(Words(text)[j][i])})

\* len(set(words))
UniqueWords(text) ==
    Cardinality({Words(text)[j] : j \in 1..Len(Words(text))})

\* sum(1 for word in words if len(word) > 6)
LongWordCount(text) ==
    Cardinality({j \in 1..Len(Words(text)) : WordLen(Words(text)[j]) > 6})

\* sum(len(word) for word in words)
WordChars(text) ==
    SumTo([j \in 1..Len(Words(text)) |-> WordLen(Words(text)[j])],
          Len(Words(text)))

\* A feature value is the quotient num / den; den is 1 for a count.
Value(name, num, den) == [name |-> name, num |-> num, den |-> den]

\* extract_advanced_features: the features dict in insertion order.
ExtractAdvancedFeatures(text) ==
    LET word_count == Len(Words(text))
        sentence_count ==
            Floor1(Cardinality({j \in 1..Len(Sentences(text)) :
                                   NotBlank(Sentences(text)[j])}))
    IN  << Value("text_length", TextLength(text), 1),
           Value("word_count", word_count, 1),
           Value("sentence_count", sentence_count, 1),
           Value("avg_sentence_length", word_count, sentence_count),
           Value("avg_word_length", WordChars(text), Floor1(word_count)),
           Value("urgency_score", PatternCount(text, UrgencyPatterns), 1),
           Value("authority_score", PatternCount(text, AuthorityPatterns), 1),
           Value("scarcity_score", PatternCount(text, ScarcityPatterns), 1),
           Value("social_proof_score",
                 PatternCount(text, SocialProofPatterns), 1),
           Value("info_request_score",
                 PatternCount(text, PersonalInfoPatterns), 1),
           Value("financial_score", PatternCount(text, FinancialPatterns), 1),
           Value("platform_migration_score",
                 PatternCount(text, PlatformPatterns), 1),
           Value("question_marks", CharCount(text, "?"), 1),
           Value("exclamation_marks", CharCount(text, "!"), 1),
           Value("capital_ratio", UpperCount(text),
                 Floor1(TextLength(text))),
           Value("link_count", LinkCount(text), 1),
           Value("unique_word_ratio", UniqueWords(text), Floor1(word_count)),
           Value("long_word_count", LongWordCount(text), 1),
           Value("positive_emotion_score",
                 PatternCount(text, PositiveEmotion), 1),
           Value("negative_emotion_score",
                 PatternCount(text, NegativeEmotion), 1) >>

\* A quotient with divisor 0 raises ZeroDivisionError.
DivisionRaises(fs) == \E i \in 1..Len(fs) : fs[i].den = 0

\* features[name]
Feature(fs, name) == fs[CHOOSE i \in 1..Len(fs) : fs[i].name = name]

\* ---------------------------------------------------------- explanation
\* An indicator string: its wording and, where the wording carries one, the
\* number of instances.
Indicator(text, n) == [text |-> text, n |-> n]

AppendIf(s, cond, x) == IF cond THEN Append(s, x) ELSE s

\* _generate_detailed_explanation: high_impact_features
KeyIndicators(fs) ==
    LET n(name) == Feature(fs, name).num
        i1 == AppendIf(<<>>, n("urgency_score") >= 2,
                 Indicator("High urgency language",
                           Some(n("urgency_score"))))
        i2 == AppendIf(i1, n("authority_score") >= 2,
                 Indicator("Authority impersonation",
                           Some(n("authority_score"))))
        i3 == AppendIf(i2, n("info_request_score") >= 2,
                 Indicator("Personal information requests",
                           Some(n("info_request_score"))))
        i4 == AppendIf(i3, n("platform_migration_score") >= 1,
                 Indicator("Platform migration attempt",
                           Some(n("platform_migration_score"))))
        i5 == AppendIf(i4, n("financial_score") >= 2,
                 Indicator("Financial terminology",
                           Some(n("financial_score"))))
        i6 == AppendIf(i5, n("link_count") >= 1,
                 Indicator("Contains suspicious links", None))
    IN  AppendIf(i6, 10 * Feature(fs, "capital_ratio").num
                        > 3 * Feature(fs, "capital_ratio").den,
                 Indicator("Excessive capitalization", None))

\* _generate_detailed_explanation: behavioral_patterns
BehavioralPatterns(fs) ==
    LET n(name) == Feature(fs, name).num
        b1 == AppendIf(<<>>, n("scarcity_score") > 0, "Scarcity tactics")
        b2 == AppendIf(b1, n("social_proof_score") > 0,
                       "Social proof manipulation")
    IN  AppendIf(b2, n("negative_emotion_score")
                        > n("positive_emotion_score"),
                 "Fear/negative emotion dominance")

\* -------------------------------------------------------------- detector
\* The texts predict is probed with: the empty string, and a text with two
\* urgency words and a link.
ProbeTexts == {<<>>, <<"urgent", " ", "urgent", " ", "http://x">>}

\* A fitted classifier is the function predict_proba computes from a text to
\* the probability of the phishing class; the probabilities a fitted function
\* takes on the probe texts are sampled at the two ends of the grid.
ModelProbs == {0, PScale}
Models == [ProbeTexts -> ModelProbs]

\* The fitted function of the model a monitor starts with: it clears the
\* empty text and condemns every other.
LoadedModel == [t \in ProbeTexts |-> IF t = <<>> THEN 0 ELSE PScale]

NotSeen == [t \in ProbeTexts |-> None]

\* A vectorizer: as constructed ("unfitted"), fitted by the training run
\* whose classifier computes run[1] ("fitted"), or absent ("none").
Vectorizer(state, run) == [state |-> state, run |-> run]
Unfitted == Vectorizer("unfitted", None)
FittedBy(m) == Vectorizer("fitted", Some(m))

\* The dict save_model pickles.
Bundle(v, c, trained) ==
    [vectorizer |-> v, classifier |-> c, is_trained |-> trained]

\* The dict create_working_model of fix_ml_model.py pickles.
PlaceholderBundle == Bundle(Vectorizer("none", None), None, FALSE)

\* The kind of artifact a file content is.
ArtifactOf(f) ==
    IF f = None THEN "missing"
    ELSE IF f[1].is_trained THEN "trained" ELSE "placeholder"

\* predict assigns no attribute of the detector.
AfterPredictInverted(c) ==
    IF c = None THEN c ELSE Some([t \in ProbeTexts |-> PScale - c[1][t]])
AfterPredict(c) == c

\* ------------------------------------------------- scoring (pure functions)
\* Percentages n for which the binary64 product (n/100) * 100 falls just
\* below n, so that int() yields n - 1.
Float64Short == {29, 57, 58}

\* final_score = int(ml_probability * 100)
FinalScoreRounded(k) ==
    (2 * 100 * k + PScale) \div (2 * PScale)
FinalScore(k) ==
    LET q == (100 * k) \div PScale
    IN  IF (100 * k) % PScale = 0 /\ q \in Float64Short THEN q - 1 ELSE q

\* risk_level = CRITICAL if p > 0.8 else HIGH if p > 0.6 else MEDIUM if
\* p > 0.4 else LOW
RiskLevelInclusive(k) ==
    IF 10 * k >= 8 * PScale THEN "CRITICAL"
    ELSE IF 10 * k >= 6 * PScale THEN "HIGH"
    ELSE IF 10 * k >= 4 * PScale THEN "MEDIUM"
    ELSE "LOW"
RiskLevel(k) ==
    IF 10 * k > 8 * PScale THEN "CRITICAL"
    ELSE IF 10 * k > 6 * PScale THEN "HIGH"
    ELSE IF 10 * k > 4 * PScale THEN "MEDIUM"
    ELSE "LOW"

\* The explanation predict returns with the probability.
Explanation(k) ==
    [probability |-> k, risk_level |-> RiskLevel(k)]

\* The report analyze_message builds from predict's result.
AnalysisReport(k) ==
    [final_score |-> FinalScore(k),
     risk_level  |-> Explanation(k).risk_level,
     probability |-> k]

\* ------------------------------------------------ threat classification
\* needle in indicator.lower(), for the wordings of KeyIndicators.
LowerContains(text, needle) ==
    <<text, needle>> \in
       {<<"High urgency language", "urgency">>,
        <<"Authority impersonation", "authority">>,
        <<"Personal information requests", "personal information">>,
        <<"Platform migration attempt", "platform migration">>,
        <<"Financial terminology", "financial">>}

\* any(needle in indicator.lower() for indicator in indicators)
AnyContains(indicators, needle) ==
    \E i \in 1..Len(indicators) : LowerContains(indicators[i].text, needle)

\* threat_types[:2] if threat_types else ["Unclassified Social Engineering"]
PrimaryTypesAll(types) == types
PrimaryTypes(types) ==
    IF types # <<>>
    THEN SubSeq(types, 1, IF Len(types) < 2 THEN Len(types) ELSE 2)
    ELSE <<"Unclassified Social Engineering">>

\* threat_types[2:] if len(threat_types) > 2 else []
SecondaryTypes(types) ==
    IF Len(types) > 2 THEN SubSeq(types, 3, Len(types)) ELSE <<>>

\* confidence = min(confidence, 1.0), in tenths
CapConfidenceOff(c) == c
CapConfidence(c) == IF c < 10 THEN c ELSE 10

\* _classify_threat_type; confidence is counted in tenths. (The binary64 sums
\* 0.2 + 0.2 + 0.2 and 0.3 + 0.2 + 0.2 + 0.2 lie one unit in the last place
\* off 0.6 and 0.9; every other sum is the double nearest to its decimal.)
ClassifyThreatType(indicators, patterns) ==
    LET u  == AnyContains(indicators, "urgency")
        a  == AnyContains(indicators, "authority")
        f  == AnyContains(indicators, "financial")
        pm == AnyContains(indicators, "platform migration")
        pi == AnyContains(indicators, "personal information")
        t1 == AppendIf(<<>>, u, "Urgency-Based Phishing")
        t2 == AppendIf(t1, a, "Authority Impersonation")
        t3 == AppendIf(t2, f, "Financial Scam")
        t4 == AppendIf(t3, pm, "Platform Migration Attack")
        t5 == AppendIf(t4, pi, "Information Harvesting")
        c  == (IF u THEN 3 ELSE 0) + (IF a THEN 3 ELSE 0)
              + (IF f THEN 2 ELSE 0) + (IF pm THEN 2 ELSE 0)
              + (IF pi THEN 2 ELSE 0)
    IN  [primary_types       |-> PrimaryTypes(t5),
         secondary_types     |-> SecondaryTypes(t5),
         confidence          |-> CapConfidence(c),
         techniques_detected |-> patterns]

\* process_message_as_alert: 'threat_type' of alert_data,
\* primary_types[0] if primary_types else 'Unknown'
AlertThreatTypeUnknown(classification) == "Unknown"
AlertThreatType(classification) ==
    IF classification.primary_types # <<>>
    THEN classification.primary_types[1]
    ELSE "Unknown"

\* process_message_as_alert: the alert_data built from the analysis of a
\* message the classifier scores k / PScale and whose explanation lists
\* indicators.
AlertData(k, indicators) ==
    [severity    |-> AnalysisReport(k).risk_level,
     risk_score  |-> AnalysisReport(k).final_score,
     threat_type |-> AlertThreatType(ClassifyThreatType(indicators, <<>>))]

\* The wordings of KeyIndicators in the order they are appended.
IndicatorTexts ==
    <<"High urgency language", "Authority impersonation",
      "Personal information requests", "Platform migration attempt",
      "Financial terminology", "Contains suspicious links",
      "Excessive capitalization">>

\* The indicator lists an explanation can carry: any of the wordings, in
\* that order, the counted ones at two instances.
IndicatorLists ==
    {SelectSeq([i \in 1..Len(IndicatorTexts) |->
                   Indicator(IndicatorTexts[i],
                             IF i <= 5 THEN Some(2) ELSE None)],
               LAMBDA x : x.text \in S) :
        S \in SUBSET {IndicatorTexts[i] : i \in 1..Len(IndicatorTexts)}}

\* ------------------------------------------------------ rule-based scorer
\* Weights a config.yaml can set under scoring.
WeightValues == {-10, 0, 10, 30}

Configs ==
    [keyword_weight : WeightValues,
     sentiment_weight : WeightValues,
     relationship_escalation_weight : WeightValues,
     request_private_info_weight : WeightValues]

\* What the scorer's analyses find in a message: how many suspicious
\* keywords and high-risk phrases occur in it, whether its polarity is
\* extreme, whether an escalation and a private-information pattern match.
RuleMessages ==
    [keywords : 0..MaxHits, phrases : 0..MaxHits, extreme : BOOLEAN,
     escalation : BOOLEAN, private_info : BOOLEAN]

\* analyze_keywords: keyword_weight per keyword, twice that per phrase.
KeywordScore(cfg, msg) ==
    msg.keywords * cfg.keyword_weight + msg.phrases * (cfg.keyword_weight * 2)

\* analyze_sentiment
SentimentScore(cfg, msg) == IF msg.extreme THEN cfg.sentiment_weight ELSE 0

\* detect_relationship_escalation
EscalationScore(cfg, msg) ==
    IF msg.escalation THEN cfg.relationship_escalation_weight ELSE 0

\* detect_private_info_request
PrivateInfoScore(cfg, msg) ==
    IF msg.private_info THEN cfg.request_private_info_weight ELSE 0

\* calculate_risk_score: the sum, then min(risk_score, 100).
RiskScore(cfg, msg) ==
    LET sum == KeywordScore(cfg, msg) + SentimentScore(cfg, msg)
               + EscalationScore(cfg, msg) + PrivateInfoScore(cfg, msg)
    IN  IF sum < 100 THEN sum ELSE 100

\* ---------------------------------------------------------------- batch
\* A message of a batch: Some(k) is a text the classifier scores k / PScale,
\* None a value that is no text, on which analyze_message raises.
BatchMessages == {None} \cup {Some(k) : k \in ProbeProbs}
Batches == UNION {[1..n -> BatchMessages] : n \in 0..MaxBatch}

\* The entry batch_analyze appends for one message: the report of
\* analyze_message, or the error entry when it raised.
BatchEntry(msg, trained) ==
    IF msg = None \/ trained = FALSE
    THEN [error |-> TRUE, final_score |-> 0, risk_level |-> "UNKNOWN",
          probability |-> None]
    ELSE [error |-> FALSE,
          final_score |-> AnalysisReport(msg[1]).final_score,
          risk_level |-> AnalysisReport(msg[1]).risk_level,
          probability |-> Some(AnalysisReport(msg[1]).probability)]

\* The loop of batch_analyze.
RECURSIVE BatchLoop(_, _, _)
BatchLoop(msgs, trained, results) ==
    IF msgs = <<>> THEN results
    ELSE BatchLoop(Tail(msgs), trained,
                   Append(results, BatchEntry(Head(msgs), trained)))

BatchResultsSkippingErrors(msgs, trained) ==
    BatchLoop(SelectSeq(msgs, LAMBDA m : m # None), trained, <<>>)
BatchResults(msgs, trained) == BatchLoop(msgs, trained, <<>>)

\* ------------------------------------------------------------ guards
\* predict: "if not self.is_trained: raise RuntimeError"
PredictRefusesNever(trained) == FALSE
PredictRefuses(trained) == ~trained

\* analyze_message: "if not self.model_loaded: raise RuntimeError"
AnalyzeRefusesNever(loaded) == FALSE
AnalyzeRefuses(loaded) == ~loaded

\* process_message_as_alert: "if analysis_result['final_score'] >= 40"
QualifiesAbove(score) == score > 40
Qualifies(score) == score >= 40

\* MLPhishingDetector.load_model: open() raises for a missing file, and
\* "model_data = pickle.dump(f)" raises TypeError for every file.
DetectorLoadRaises(artifact) == TRUE

\* is_trained as stored in the artifact.
StoredIsTrained(artifact) == artifact = "trained"

\* ------------------------------------------------------- the alert table
\* What sqlite3.connect and the INSERT can meet: a database that answers, or
\* one that cannot be opened or written (OperationalError).
StorageOutcomes == {"ok", "unavailable"}

\* create_alert has no handler around connect, execute and commit.
StorageRaisesNever(db) == FALSE
StorageRaises(db) == db = "unavailable"

AlertIdsOf(rows) == {rows[i].alert_id : i \in 1..Len(rows)}

\* UNIQUE constraint on security_alerts.alert_id
InsertViolatesNothing(rows, aid) == FALSE
InsertViolates(rows, aid) == aid \in AlertIdsOf(rows)

\* The row INSERT adds: status and resolved_at take the column defaults.
NewRowStamped(rowid, aid, data) ==
    [id          |-> rowid,
     alert_id    |-> aid,
     timestamp   |-> now,
     severity    |-> data.severity,
     status      |-> "OPEN",
     risk_score  |-> data.risk_score,
     threat_type |-> data.threat_type,
     resolved_at |-> Some(now)]
NewRow(rowid, aid, data) ==
    [id          |-> rowid,
     alert_id    |-> aid,
     timestamp   |-> now,
     severity    |-> data.severity,
     status      |-> "OPEN",
     risk_score  |-> data.risk_score,
     threat_type |-> data.threat_type,
     resolved_at |-> None]

\* The row inject_test_alert inserts: a CRITICAL alert of score 94 with
\* status 'OPEN' spelled out, resolved_at by default.
InjectedRow(rowid, aid) ==
    [NewRow(rowid, aid,
            [severity |-> "CRITICAL", risk_score |-> 94,
             threat_type |-> "Account Takeover Attempt"])
       EXCEPT !.status = "OPEN"]

\* UPDATE security_alerts SET status = 'RESOLVED',
\*   resolved_at = CURRENT_TIMESTAMP WHERE alert_id = ?
ResolvedRowsAll(rows, aid, t) ==
    [i \in 1..Len(rows) |->
        [rows[i] EXCEPT !.status = "RESOLVED", !.resolved_at = Some(t)]]
ResolvedRows(rows, aid, t) ==
    [i \in 1..Len(rows) |->
        IF rows[i].alert_id = aid
        THEN [rows[i] EXCEPT !.status = "RESOLVED", !.resolved_at = Some(t)]
        ELSE rows[i]]

\* DELETE FROM security_alerts WHERE status = 'RESOLVED'
KeepRow(r) == r.status # "RESOLVED"
ClearedRowsAll(rows) == <<>>
ClearedRows(rows) == SelectSeq(rows, KeepRow)

\* ---------------------------------------------------------- recent alerts
\* Alert data of more than one severity: the first two alerts of
\* send_test_alerts.
TestAlertsBySeverity ==
    {[severity |-> "CRITICAL", risk_score |-> 96,
      threat_type |-> "Account Takeover Attempt"],
     [severity |-> "HIGH", risk_score |-> 82,
      threat_type |-> "Financial Scam"]}

\* Seconds of an hour, as the modifier '-N hours' of datetime() counts them.
HourSeconds == 3600

\* Windows get_recent_alerts is asked for, in hours.
WindowHours == 0..MaxHours

\* Severities get_recent_alerts is asked for; None is the default.
SeverityFilters == {None, Some("HIGH")}

\* WHERE timestamp >= datetime('now', '-N hours') at database time t
InWindowAlways(r, t, hours) == TRUE
InWindow(r, t, hours) == r.timestamp >= t - hours * HourSeconds

\* The WHERE clause with " AND severity = ?" when a severity is given:
\* "if severity:" - None, like the empty string, adds no condition.
Selected(r, t, hours, severity) ==
    /\ InWindow(r, t, hours)
    /\ (severity # None /\ severity[1] # "") => r.severity = severity[1]

\* ORDER BY timestamp DESC
NewestFirst(q) ==
    \A i, j \in 1..Len(q) : i < j => q[i].timestamp >= q[j].timestamp

\* The row lists fetchall() can return: every selected row once, in
\* descending order of timestamp; SQL leaves the order of rows of one
\* timestamp open.
RecentAlerts(rows, t, hours, severity) ==
    LET S == {i \in 1..Len(rows) : Selected(rows[i], t, hours, severity)}
        n == Cardinality(S)
    IN  {q \in {[k \in 1..n |-> rows[p[k]]] :
                   p \in {p \in [1..n -> S] :
                             \A a, b \in 1..n : a # b => p[a] # p[b]}} :
            NewestFirst(q)}

\* ------------------------------------------------- the message database
\* Sender profile URLs log_message is called with.
SenderUrls == {"https://linkedin.com/in/a", "https://linkedin.com/in/b"}

\* Risk scores log_message is called with: the two edges of its levels from
\* both sides.
LoggedScores == {39, 40, 69, 70}

\* log_message: High from 70, Medium from 40, Low below.
LoggedRiskLevel(score) ==
    IF score >= 70 THEN "High" ELSE IF score >= 40 THEN "Medium" ELSE "Low"

\* The row "INSERT INTO messages" adds; timestamp takes the column default.
MessageRow(url, score, t) ==
    [sender_profile_url |-> url, risk_score |-> score,
     risk_level |-> LoggedRiskLevel(score), timestamp |-> t]

\* "INSERT OR REPLACE INTO threats (sender_profile_url, last_detected,
\* total_messages, max_risk_score)" at time t: the sub-selects read the row
\* of the sender as it stands, REPLACE deletes that row, and the new row gets
\* the column default CURRENT_TIMESTAMP for first_detected, which is not
\* among the inserted columns. MAX(a, b) is the greater of its two arguments.
UpsertThreat(rows, url, score, t) ==
    LET old  == SelectSeq(rows, LAMBDA r : r.sender_profile_url = url)
        kept == SelectSeq(rows, LAMBDA r : r.sender_profile_url # url)
        Max2(a, b) == IF a >= b THEN a ELSE b
    IN  Append(kept,
               [sender_profile_url |-> url,
                first_detected |-> t,
                last_detected |-> t,
                total_messages |->
                    (IF old = <<>> THEN 0 ELSE old[1].total_messages) + 1,
                max_risk_score |->
                    Max2(score,
                         IF old = <<>> THEN 0 ELSE old[1].max_risk_score)])

\* ------------------------------------------------------ notification
\* Values of SLACK_WEBHOOK_URL: unset, a URL of another service, a Slack
\* incoming-webhook URL.
WebhookUrls ==
    {None, Some("https://example.com/hook"),
     Some("https://hooks.slack.com/services/T0/B0/x")}

\* url.startswith('https://hooks.slack.com/services/')
StartsWithHooksPrefix(url) == url = "https://hooks.slack.com/services/T0/B0/x"

\* SlackNotifier.is_configured
IsConfiguredAlways(url) == TRUE
IsConfigured(url) == url # None /\ StartsWithHooksPrefix(url[1])

\* AlertManager.setup_slack: the notifier is kept only if it is configured.
SetupSlack(url) == IF IsConfigured(url) THEN "configured" ELSE "none"

\* Alert payloads handed to send_alert: with every field
\* _create_slack_message reads, or with one missing (KeyError).
Payloads == {"complete", "incomplete"}

\* What the webhook request of send_alert can come to.
HttpOutcomes == {"ok", "non200", "exception"}

\* send_alert returns True for status 200 and False otherwise; every
\* exception of the request or of the formatting is caught inside it.
SendAlertRaisesOnFailure(outcome) == outcome # "ok"
SendAlertRaises(outcome) == FALSE

\* send_alert: "if response.status_code == 200: return True", False on every
\* other path.
SendAlertResultUnlessException(outcome) == outcome # "exception"
SendAlertResult(outcome) == outcome = "ok"

\* send_alert posts once the notifier is configured and the message built.
RequestMade(url, payload) == IsConfigured(url) /\ payload = "complete"

\* Calls of requests.post a send_alert makes whose request meets outcome
\* http: the one at the end of its try block, none when it made no request.
PostsWithRetry(http) ==
    IF http = "none" THEN 0 ELSE IF http = "ok" THEN 1 ELSE 2
Posts(http) == IF http = "none" THEN 0 ELSE 1

\* ------------------------------------------------------ monitoring cycle
\* A scraped message with what its processing meets: the probability of its
\* text (the classifier clears a message or condemns it), the alert id
\* generated for it, the state of the database and the outcome of the
\* webhook request.
CycleItems ==
    [k : {0, PScale}, aid : AlertIds, db : StorageOutcomes,
     http : HttpOutcomes \cup {"none"}]

\* The message lists scrape_messages can return.
CycleMessages == UNION {[1..n -> CycleItems] : n \in 0..MaxCycle}

\* process_message_as_alert on message it while the table holds rows and
\* the rowid counter is at sq: whether it raised, the table and the counter
\* it leaves, and the alert id it returned.
ProcessOutcome(rows, sq, it) ==
    IF AnalyzeRefuses(model_loaded) \/ PredictRefuses(is_trained)
    THEN [raised |-> TRUE, rows |-> rows, seq |-> sq, ret |-> None]
    ELSE IF ~Qualifies(AnalysisReport(it.k).final_score)
    THEN [raised |-> FALSE, rows |-> rows, seq |-> sq, ret |-> None]
    ELSE IF StorageRaises(it.db) \/ InsertViolates(rows, it.aid)
    THEN [raised |-> TRUE, rows |-> rows, seq |-> sq, ret |-> None]
    ELSE [raised |-> it.http # "none" /\ SendAlertRaises(it.http),
          rows   |-> Append(rows,
                            NewRow(sq + 1, it.aid, AlertData(it.k, <<>>))),
          seq    |-> sq + 1,
          ret    |-> Some(it.aid)]

\* "for message in messages:" from message i on. An exception of
\* process_message_as_alert leaves the loop: the try of monitor_cycle has a
\* finally clause and no handler. attempted counts the messages
\* process_message_as_alert was called on, created those it returned an id
\* for.
RECURSIVE CycleLoop(_, _, _, _, _)
CycleLoop(items, i, rows, sq, created) ==
    IF i > Len(items)
    THEN [raised |-> FALSE, attempted |-> Len(items), created |-> created,
          rows |-> rows, seq |-> sq]
    ELSE LET r == ProcessOutcome(rows, sq, items[i])
         IN  IF r.raised
             THEN [raised |-> TRUE, attempted |-> i, created |-> created,
                   rows |-> r.rows, seq |-> r.seq]
             ELSE CycleLoop(items, i + 1, r.rows, r.seq,
                            created + (IF r.ret # None THEN 1 ELSE 0))

\* ------------------------------------------------------------ last call
\* out is the value returned by a call that returns neither an alert id nor a
\* score; db is what the call's database access met; dispatch is what its
\* webhook request met, "none" when no request was made; posts is the number
\* of webhook requests it made.
NoCall ==
    [op |-> "none", raised |-> FALSE, arg |-> None, ret |-> None,
     prob |-> None, score |-> None, tier |-> None, dispatch |-> "none",
     out |-> None, db |-> "none", posts |-> 0]

Call(op, raised, arg, ret, prob, score, tier, dispatch) ==
    [NoCall EXCEPT !.op = op, !.raised = raised, !.arg = arg, !.ret = ret,
                   !.prob = prob, !.score = score, !.tier = tier,
                   !.dispatch = dispatch]

\* ---------------------------------------------------------------- Init
\* A fresh detector, an engine constructed without model_path, no model
\* file, an alert manager on an empty table; SLACK_WEBHOOK_URL is unset, or
\* set to a Slack webhook or to something else.
Init ==
    /\ is_trained = FALSE
    /\ vectorizer = Unfitted
    /\ classifier = None
    /\ file = None
    /\ seen = NotSeen
    /\ model_loaded = FALSE
    /\ alerts = <<>>
    /\ seq = 0
    /\ now = 0
    /\ webhook_url \in WebhookUrls
    /\ slack = SetupSlack(webhook_url)
    /\ messages = <<>>
    /\ threats = <<>>
    /\ last = NoCall

\* The state AlertMonitor.__init__ is written to establish: the engine's
\* detector holds a trained model and model_loaded is set. With
\* DetectorLoadRaises as it stands no behaviour of Spec reaches this state;
\* the rules of scoring and alerting are checked from it.
InitLoaded ==
    /\ is_trained = TRUE
    /\ vectorizer = FittedBy(LoadedModel)
    /\ classifier = Some(LoadedModel)
    /\ file = Some(Bundle(vectorizer, classifier, is_trained))
    /\ seen = NotSeen
    /\ model_loaded = TRUE
    /\ alerts = <<>>
    /\ seq = 0
    /\ now = 0
    /\ webhook_url \in WebhookUrls
    /\ slack = SetupSlack(webhook_url)
    /\ messages = <<>>
    /\ threats = <<>>
    /\ last = NoCall

\* --------------------------------------------------------------- actions
\* MLPhishingDetector.train: fits vectorizer and classifier, sets is_trained.
\* m is the function the fitted classifier computes.
Train(m) ==
    /\ is_trained' = TRUE
    /\ vectorizer' = FittedBy(m)
    /\ classifier' = Some(m)
    /\ seen' = NotSeen
    /\ last' = [NoCall EXCEPT !.op = "train"]
    /\ UNCHANGED <<file, model_loaded, alerts, seq, now, webhook_url, slack,
                   messages, threats>>

\* MLPhishingDetector.train that raises after "self.vectorizer.fit_transform"
\* and before "self.classifier.fit": train_test_split rejects the labels (a
\* class with a single member under stratify), or the fit itself fails.
\* classifier and is_trained stay what they were.
TrainRaises(m) ==
    /\ vectorizer' = FittedBy(m)
    /\ seen' = NotSeen
    /\ last' = [NoCall EXCEPT !.op = "train", !.raised = TRUE]
    /\ UNCHANGED <<is_trained, classifier, file, model_loaded, alerts, seq,
                   now, webhook_url, slack,
                   messages, threats>>

\* MLPhishingDetector.save_model: pickles the detector's attributes.
SaveModel ==
    /\ file' = Some(Bundle(vectorizer, classifier, is_trained))
    /\ last' = [NoCall EXCEPT !.op = "save"]
    /\ UNCHANGED <<is_trained, vectorizer, classifier, seen, model_loaded,
                   alerts, seq, now, webhook_url, slack,
                   messages, threats>>

\* create_working_model of fix_ml_model.py: writes the placeholder bundle.
FixModel ==
    /\ file' = Some(PlaceholderBundle)
    /\ last' = [NoCall EXCEPT !.op = "fix"]
    /\ UNCHANGED <<is_trained, vectorizer, classifier, seen, model_loaded,
                   alerts, seq, now, webhook_url, slack,
                   messages, threats>>

\* MLFirstAnalysisEngine() without model_path: a fresh detector, no model
\* loaded.
NewEngine ==
    /\ is_trained' = FALSE
    /\ vectorizer' = Unfitted
    /\ classifier' = None
    /\ seen' = NotSeen
    /\ model_loaded' = FALSE
    /\ last' = [NoCall EXCEPT !.op = "new"]
    /\ UNCHANGED <<file, alerts, seq, now, webhook_url, slack,
                   messages, threats>>

\* MLPhishingDetector.load_model on the model file: the attributes are
\* assigned only after the bundle has been read.
DetectorLoadModel ==
    IF DetectorLoadRaises(ArtifactOf(file))
    THEN /\ last' = [NoCall EXCEPT !.op = "detector_load", !.raised = TRUE]
         /\ UNCHANGED <<is_trained, vectorizer, classifier, file, seen,
                        model_loaded, alerts, seq, now, webhook_url, slack,
                   messages, threats>>
    ELSE /\ is_trained' = StoredIsTrained(ArtifactOf(file))
         /\ vectorizer' = file[1].vectorizer
         /\ classifier' = file[1].classifier
         /\ seen' = NotSeen
         /\ last' = [NoCall EXCEPT !.op = "detector_load"]
         /\ UNCHANGED <<file, model_loaded, alerts, seq, now, webhook_url,
                        slack,
                   messages, threats>>

\* MLFirstAnalysisEngine.load_model: calls the detector's load_model and sets
\* model_loaded when it returns; any exception becomes a RuntimeError.
LoadModel ==
    IF DetectorLoadRaises(ArtifactOf(file))
    THEN /\ last' = [NoCall EXCEPT !.op = "load", !.raised = TRUE]
         /\ UNCHANGED <<is_trained, vectorizer, classifier, file, seen,
                        model_loaded, alerts, seq, now, webhook_url, slack,
                   messages, threats>>
    ELSE /\ is_trained' = StoredIsTrained(ArtifactOf(file))
         /\ vectorizer' = file[1].vectorizer
         /\ classifier' = file[1].classifier
         /\ seen' = NotSeen
         /\ model_loaded' = TRUE
         /\ last' = [NoCall EXCEPT !.op = "load"]
         /\ UNCHANGED <<file, alerts, seq, now, webhook_url, slack,
                   messages, threats>>

\* MLPhishingDetector.predict on a text for which the classifier yields
\* probability k / PScale.
Predict(k) ==
    /\ IF PredictRefuses(is_trained)
       THEN last' = [NoCall EXCEPT !.op = "predict", !.raised = TRUE]
       ELSE last' = Call("predict", FALSE, None, None, Some(k),
                         None, Some(Explanation(k).risk_level), "none")
    /\ UNCHANGED <<is_trained, vectorizer, classifier, file, seen,
                   model_loaded, alerts, seq, now, webhook_url, slack,
                   messages, threats>>

\* MLPhishingDetector.extract_advanced_features
ExtractFeatures(text) ==
    /\ IF DivisionRaises(ExtractAdvancedFeatures(text))
       THEN last' = [NoCall EXCEPT !.op = "extract", !.raised = TRUE,
                                   !.arg = Some(text)]
       ELSE last' = [NoCall EXCEPT !.op = "extract", !.arg = Some(text),
                                   !.out = Some(ExtractAdvancedFeatures(text))]
    /\ UNCHANGED <<is_trained, vectorizer, classifier, file, seen,
                   model_loaded, alerts, seq, now, webhook_url, slack,
                   messages, threats>>

\* What predict returns for probe text t: the classifier's probability and
\* the explanation's tier and indicators.
Prediction(c, t) ==
    [probability |-> c[1][t],
     risk_level  |-> Explanation(c[1][t]).risk_level,
     indicators  |-> KeyIndicators(ExtractAdvancedFeatures(t))]

\* MLPhishingDetector.predict on probe text t. out records the indicators
\* and whether t had been predicted before on this fitted state.
PredictText(t) ==
    /\ IF PredictRefuses(is_trained)
       THEN /\ last' = [NoCall EXCEPT !.op = "predict", !.raised = TRUE,
                                      !.arg = Some(t)]
            /\ UNCHANGED <<classifier, seen>>
       ELSE /\ last' = [Call("predict", FALSE, Some(t), None,
                             Some(Prediction(classifier, t).probability),
                             None,
                             Some(Prediction(classifier, t).risk_level),
                             "none")
                           EXCEPT !.out =
                              Some([indicators |->
                                       Prediction(classifier, t).indicators,
                                    repeated |-> seen[t] # None])]
            /\ seen' = IF seen[t] = None
                       THEN [seen EXCEPT
                                ![t] = Some(Prediction(classifier, t))]
                       ELSE seen
            /\ classifier' = AfterPredict(classifier)
    /\ UNCHANGED <<is_trained, vectorizer, file, model_loaded, alerts, seq,
                   now, webhook_url, slack,
                   messages, threats>>

\* MLFirstAnalysisEngine._classify_threat_type
ClassifyThreat(indicators) ==
    /\ last' = [NoCall EXCEPT !.op = "classify", !.arg = Some(indicators),
                              !.out = Some(ClassifyThreatType(indicators,
                                                              <<>>))]
    /\ UNCHANGED <<is_trained, vectorizer, classifier, file, seen,
                   model_loaded, alerts, seq, now, webhook_url, slack,
                   messages, threats>>

\* AnalysisEngine.calculate_risk_score under configuration cfg.
CalculateRiskScore(cfg, msg) ==
    /\ last' = [NoCall EXCEPT !.op = "calculate_risk_score",
                              !.arg = Some([config |-> cfg, message |-> msg]),
                              !.out = Some(RiskScore(cfg, msg))]
    /\ UNCHANGED <<is_trained, vectorizer, classifier, file, seen,
                   model_loaded, alerts, seq, now, webhook_url, slack,
                   messages, threats>>

\* MLFirstAnalysisEngine.batch_analyze
BatchAnalyze(msgs) ==
    /\ IF AnalyzeRefuses(model_loaded)
       THEN last' = [NoCall EXCEPT !.op = "batch", !.raised = TRUE,
                                   !.arg = Some(msgs)]
       ELSE last' = [NoCall EXCEPT !.op = "batch", !.arg = Some(msgs),
                                   !.out = Some(BatchResults(msgs,
                                                             is_trained))]
    /\ UNCHANGED <<is_trained, vectorizer, classifier, file, seen,
                   model_loaded, alerts, seq, now, webhook_url, slack,
                   messages, threats>>

\* MLFirstAnalysisEngine.analyze_message on such a text.
AnalyzeMessage(k) ==
    /\ IF AnalyzeRefuses(model_loaded) \/ PredictRefuses(is_trained)
       THEN last' = [NoCall EXCEPT !.op = "analyze", !.raised = TRUE]
       ELSE last' = Call("analyze", FALSE, None, None, Some(k),
                         Some(AnalysisReport(k).final_score),
                         Some(AnalysisReport(k).risk_level), "none")
    /\ UNCHANGED <<is_trained, vectorizer, classifier, file, seen,
                   model_loaded, alerts, seq, now, webhook_url, slack,
                   messages, threats>>

\* The webhook outcomes a create_alert call can meet: none when the manager
\* holds no configured notifier.
HttpChoices ==
    IF slack = "configured" /\ IsConfigured(webhook_url)
    THEN HttpOutcomes ELSE {"none"}

\* AlertManager.create_alert with generated id aid: INSERT and commit, then
\* the notification. op, prob, sc and tier describe the calling operation.
\* db is what the database access meets; out is what the calling operation
\* records of its analysis.
DoCreate(op, aid, db, data, http, prob, sc, tier, out) ==
    IF StorageRaises(db) \/ InsertViolates(alerts, aid)
    THEN /\ last' = [Call(op, TRUE, Some(aid), None, prob, sc, tier, "none")
                       EXCEPT !.db = db, !.out = out]
         /\ UNCHANGED <<alerts, seq>>
    ELSE /\ Len(alerts) < MaxAlerts
         /\ seq < MaxCreated
         /\ alerts' = Append(alerts, NewRow(seq + 1, aid, data))
         /\ seq' = seq + 1
         /\ IF http # "none" /\ SendAlertRaises(http)
            THEN last' = [Call(op, TRUE, Some(aid), None, prob, sc, tier,
                               http) EXCEPT !.db = db, !.posts = Posts(http),
                                            !.out = out]
            ELSE last' = [Call(op, FALSE, Some(aid), Some(aid), prob, sc,
                               tier, http) EXCEPT !.db = db,
                                                  !.posts = Posts(http),
                                                  !.out = out]

\* Alert data handed to create_alert directly: the first alert of
\* send_test_alerts.
TestAlerts ==
    {[severity |-> "CRITICAL", risk_score |-> 96,
      threat_type |-> "Account Takeover Attempt"]}

CreateAlert(data, aid, db, http) ==
    /\ DoCreate("create", aid, db, data, http, None, None, None, None)
    /\ UNCHANGED <<is_trained, vectorizer, classifier, file, seen,
                   model_loaded, now, webhook_url, slack,
                   messages, threats>>

\* AlertMonitor.process_message_as_alert on a message whose text the
\* classifier scores k / PScale and whose explanation lists indicators. out
\* records the threat classification of the analysis.
ProcessIndicated(k, indicators, aid, db, http) ==
    /\ IF AnalyzeRefuses(model_loaded) \/ PredictRefuses(is_trained)
       THEN /\ last' = [NoCall EXCEPT !.op = "process", !.raised = TRUE]
            /\ UNCHANGED <<alerts, seq>>
       ELSE IF Qualifies(AnalysisReport(k).final_score)
            THEN DoCreate("process", aid, db, AlertData(k, indicators),
                          http, Some(k),
                          Some(AnalysisReport(k).final_score),
                          Some(AnalysisReport(k).risk_level),
                          Some(ClassifyThreatType(indicators, <<>>)))
            ELSE /\ last' = [Call("process", FALSE, None, None, Some(k),
                                  Some(AnalysisReport(k).final_score),
                                  Some(AnalysisReport(k).risk_level),
                                  "none")
                               EXCEPT !.out =
                                  Some(ClassifyThreatType(indicators, <<>>))]
                 /\ UNCHANGED <<alerts, seq>>
    /\ UNCHANGED <<is_trained, vectorizer, classifier, file, seen,
                   model_loaded, now, webhook_url, slack,
                   messages, threats>>

\* process_message_as_alert on a message whose explanation lists no
\* indicator.
ProcessMessage(k, aid, db, http) ==
    ProcessIndicated(k, <<>>, aid, db, http)

\* SlackNotifier.send_alert on a notifier constructed under webhook_url.
SendAlert(payload, http) ==
    /\ http \in (IF RequestMade(webhook_url, payload)
                 THEN HttpOutcomes ELSE {"none"})
    /\ last' = [NoCall EXCEPT !.op = "send_alert",
                              !.raised = SendAlertRaises(http),
                              !.arg = Some(payload),
                              !.out = IF SendAlertRaises(http) THEN None
                                      ELSE Some(SendAlertResult(http)),
                              !.dispatch = http,
                              !.posts = Posts(http)]
    /\ UNCHANGED <<is_trained, vectorizer, classifier, file, seen,
                   model_loaded, alerts, seq, now, webhook_url, slack,
                   messages, threats>>

\* inject_test_alert with generated id aid: INSERT and commit, no
\* notification.
InjectTestAlert(aid) ==
    /\ IF InsertViolates(alerts, aid)
       THEN /\ last' = [NoCall EXCEPT !.op = "inject", !.raised = TRUE,
                                      !.arg = Some(aid)]
            /\ UNCHANGED <<alerts, seq>>
       ELSE /\ Len(alerts) < MaxAlerts
            /\ seq < MaxCreated
            /\ alerts' = Append(alerts, InjectedRow(seq + 1, aid))
            /\ seq' = seq + 1
            /\ last' = [NoCall EXCEPT !.op = "inject", !.arg = Some(aid)]
    /\ UNCHANGED <<is_trained, vectorizer, classifier, file, seen,
                   model_loaded, now, webhook_url, slack, messages, threats>>

\* AlertDashboard._resolve_alert
Resolve(aid) ==
    /\ alerts' = ResolvedRows(alerts, aid, now)
    /\ last' = [NoCall EXCEPT !.op = "resolve", !.arg = Some(aid)]
    /\ UNCHANGED <<is_trained, vectorizer, classifier, file, seen,
                   model_loaded, seq, now, webhook_url, slack,
                   messages, threats>>

\* AlertDashboard._clear_resolved_alerts
ClearResolved ==
    /\ alerts' = ClearedRows(alerts)
    /\ last' = [NoCall EXCEPT !.op = "clear"]
    /\ UNCHANGED <<is_trained, vectorizer, classifier, file, seen,
                   model_loaded, seq, now, webhook_url, slack,
                   messages, threats>>

\* A second passes on the database clock.
Tick ==
    /\ now < MaxTime
    /\ now' = now + 1
    /\ last' = [NoCall EXCEPT !.op = "tick"]
    /\ UNCHANGED <<is_trained, vectorizer, classifier, file, seen,
                   model_loaded, alerts, seq, webhook_url, slack,
                   messages, threats>>

\* An hour passes on the database clock.
Hour ==
    /\ now < MaxHours * HourSeconds
    /\ now' = now + HourSeconds
    /\ last' = [NoCall EXCEPT !.op = "hour"]
    /\ UNCHANGED <<is_trained, vectorizer, classifier, file, seen,
                   model_loaded, alerts, seq, webhook_url, slack,
                   messages, threats>>

\* AlertManager.get_recent_alerts: out is the list fetchall() returns.
GetRecentAlerts(hours, severity, out) ==
    /\ out \in RecentAlerts(alerts, now, hours, severity)
    /\ last' = [NoCall EXCEPT !.op = "recent",
                              !.arg = Some([hours |-> hours,
                                            severity |-> severity]),
                              !.out = Some(out)]
    /\ UNCHANGED <<is_trained, vectorizer, classifier, file, seen,
                   model_loaded, alerts, seq, now, webhook_url, slack,
                   messages, threats>>

\* AlertMonitor.monitor_cycle: after a login that succeeds the scraped
\* messages are processed in turn; without it nothing is scraped.
MonitorCycle(login, items) ==
    LET r == IF login THEN CycleLoop(items, 1, alerts, seq, 0)
             ELSE [raised |-> FALSE, attempted |-> 0, created |-> 0,
                   rows |-> alerts, seq |-> seq]
    IN  /\ ~login => items = <<>>
        /\ \A i \in 1..Len(items) : items[i].http \in HttpChoices
        /\ Len(r.rows) <= MaxAlerts
        /\ r.seq <= MaxCreated
        /\ alerts' = r.rows
        /\ seq' = r.seq
        /\ last' = [NoCall EXCEPT !.op = "cycle", !.raised = r.raised,
                                  !.arg = Some([login |-> login,
                                                messages |-> items]),
                                  !.out = Some([attempted |-> r.attempted,
                                                created |-> r.created])]
        /\ UNCHANGED <<is_trained, vectorizer, classifier, file, seen,
                       model_loaded, now, webhook_url, slack,
                   messages, threats>>

\* DatabaseManager.log_message: the message row, and for a score from 40 the
\* row of its sender in threats.
LogMessage(url, score) ==
    /\ Len(messages) < MaxLogged
    /\ messages' = Append(messages, MessageRow(url, score, now))
    /\ threats' = IF score >= 40
                  THEN UpsertThreat(threats, url, score, now)
                  ELSE threats
    /\ last' = [NoCall EXCEPT !.op = "log_message",
                              !.arg = Some([sender_profile_url |-> url,
                                            risk_score |-> score])]
    /\ UNCHANGED <<is_trained, vectorizer, classifier, file, seen,
                   model_loaded, alerts, seq, now, webhook_url, slack>>

\* ------------------------------------------------------- specifications
\* Detector, engine and monitor from construction on.
Next ==
    \/ \E m \in Models : Train(m)
    \/ SaveModel
    \/ FixModel
    \/ NewEngine
    \/ DetectorLoadModel
    \/ LoadModel
    \/ \E k \in ProbeProbs : Predict(k)
    \/ \E t \in ProbeTexts : PredictText(t)
    \/ \E k \in ProbeProbs : AnalyzeMessage(k)
    \/ \E k \in ProbeProbs, aid \in AlertIds, db \in StorageOutcomes,
          h \in HttpChoices : ProcessMessage(k, aid, db, h)

Spec == Init /\ [][Next]_vars

\* The alert table under the alert manager and the dashboard.
NextStore ==
    \/ \E d \in TestAlerts, aid \in AlertIds, db \in StorageOutcomes,
          h \in HttpChoices : CreateAlert(d, aid, db, h)
    \/ \E aid \in AlertIds : Resolve(aid)
    \/ ClearResolved
    \/ Tick

SpecStore == Init /\ [][NextStore]_vars

\* The alert manager and its notifier: alerts are created and notifications
\* sent, nothing is resolved.
NextNotify ==
    \/ \E d \in TestAlerts, aid \in AlertIds, db \in StorageOutcomes,
          h \in HttpChoices : CreateAlert(d, aid, db, h)
    \/ \E p \in Payloads, h \in HttpOutcomes \cup {"none"} : SendAlert(p, h)

SpecNotify == Init /\ [][NextNotify]_vars

\* The alert table as get_recent_alerts reads it, under a manager without a
\* notifier and a database that answers: alerts of two severities are created
\* and resolved while hours pass, and then the table is queried.
InitRecent ==
    /\ Init
    /\ webhook_url = None

NextRecent ==
    /\ last.op # "recent"
    /\ \/ \E d \in TestAlertsBySeverity, aid \in AlertIds,
             h \in HttpChoices : CreateAlert(d, aid, "ok", h)
       \/ \E aid \in AlertIds : Resolve(aid)
       \/ Hour
       \/ \E hours \in WindowHours, severity \in SeverityFilters :
             \E out \in RecentAlerts(alerts, now, hours, severity) :
                GetRecentAlerts(hours, severity, out)

SpecRecent == InitRecent /\ [][NextRecent]_vars

\* The life of alerts at one time of the clock: the alert manager creates
\* them and notifies, the injection script inserts them, the dashboard
\* resolves and clears them.
NextAlerts ==
    \/ \E d \in TestAlerts, aid \in AlertIds, db \in StorageOutcomes,
          h \in HttpChoices : CreateAlert(d, aid, db, h)
    \/ \E aid \in AlertIds : InjectTestAlert(aid)
    \/ \E aid \in AlertIds : Resolve(aid)
    \/ ClearResolved

SpecAlerts == Init /\ [][NextAlerts]_vars

\* One message processed into an alert by a monitor whose model is loaded,
\* over the indicator lists an explanation can hold.
NextMirror ==
    /\ last = NoCall
    /\ \E k \in ProbeProbs, indicators \in IndicatorLists, aid \in AlertIds,
          db \in StorageOutcomes, h \in HttpChoices :
          ProcessIndicated(k, indicators, aid, db, h)

SpecMirror == InitLoaded /\ [][NextMirror]_vars

\* One monitoring cycle of a monitor whose engine holds a loaded model.
NextCycle ==
    /\ last = NoCall
    /\ \E login \in BOOLEAN, items \in CycleMessages :
          MonitorCycle(login, items)

SpecCycle == InitLoaded /\ [][NextCycle]_vars

\* A detector that is trained again and again, by runs that complete and by
\* runs that raise, and asked for predictions in between.
NextTrain ==
    \/ \E m \in Models : Train(m)
    \/ \E m \in Models : TrainRaises(m)
    \/ \E k \in ProbeProbs : Predict(k)
    \/ NewEngine

SpecTrain == Init /\ [][NextTrain]_vars

\* The message database: messages are logged while seconds pass.
NextLog ==
    \/ \E url \in SenderUrls, score \in LoggedScores : LogMessage(url, score)
    \/ Tick

SpecLog == InitRecent /\ [][NextLog]_vars

\* The alerting pipeline of a monitor whose engine holds a loaded model.
NextLoaded ==
    \E k \in ProbeProbs, aid \in AlertIds, db \in StorageOutcomes,
       h \in HttpChoices : ProcessMessage(k, aid, db, h)

SpecLoaded == InitLoaded /\ [][NextLoaded]_vars

\* analyze_message applied to every probability of the grid.
NextScore ==
    \E k \in Probs : AnalyzeMessage(k)

SpecScore == InitLoaded /\ [][NextScore]_vars

\* batch_analyze on an engine that holds a loaded model.
NextBatch ==
    \E msgs \in Batches : BatchAnalyze(msgs)

SpecBatch == InitLoaded /\ [][NextBatch]_vars

\* extract_advanced_features applied once, to any text of the bound.
NextFeatures ==
    /\ last = NoCall
    /\ \E text \in AllTexts : ExtractFeatures(text)

SpecFeatures == Init /\ [][NextFeatures]_vars

\* calculate_risk_score applied once, under any configuration, to any
\* message.
NextRules ==
    /\ last = NoCall
    /\ \E cfg \in Configs, msg \in RuleMessages : CalculateRiskScore(cfg, msg)

SpecRules == Init /\ [][NextRules]_vars

\* _classify_threat_type applied once, to any indicator list.
NextClassify ==
    /\ last = NoCall
    /\ \E indicators \in IndicatorLists : ClassifyThreat(indicators)

SpecClassify == Init /\ [][NextClassify]_vars

TypeOK ==
    /\ is_trained \in BOOLEAN
    /\ model_loaded \in BOOLEAN
    /\ seq \in 0..MaxCreated
    /\ now \in 0..(MaxTime + MaxHours * HourSeconds)
    /\ vectorizer.state \in {"unfitted", "fitted", "none"}
    /\ vectorizer.run \in {None} \cup {Some(m) : m \in Models}
    /\ classifier \in {None} \cup {Some(m) : m \in Models}
    /\ webhook_url \in WebhookUrls
    /\ slack \in {"none", "configured"}
    /\ Len(alerts) <= MaxAlerts
    /\ \A i \in 1..Len(alerts) :
          /\ alerts[i].id \in 1..seq
          /\ alerts[i].alert_id \in AlertIds
          /\ alerts[i].status \in {"OPEN", "RESOLVED"}
    /\ Len(messages) <= MaxLogged
    /\ Len(threats) <= Cardinality(SenderUrls)

\* ---------------------------------------------------------------- claims
HasRowId(rows, rowid) == \E j \in 1..Len(rows) : rows[j].id = rowid
LastRow(rows) == rows[Len(rows)]
Prefix(rows, n) == SubSeq(rows, 1, n)

\* One record was appended for the id the call generated, nothing else moved.
AppendedOne ==
    /\ Len(alerts') = Len(alerts) + 1
    /\ Prefix(alerts', Len(alerts)) = alerts
    /\ last'.ret # None
    /\ last'.ret = last'.arg
    /\ LastRow(alerts').alert_id = last'.ret[1]

C4_TierThresholds ==
    (last.op = "analyze" /\ ~last.raised) =>
       LET k == last.prob[1]
           t == last.tier[1]
       IN  /\ t \in Tiers
           /\ t = "CRITICAL" <=> 10 * k > 8 * PScale
           /\ t = "HIGH" <=> (10 * k > 6 * PScale /\ 10 * k <= 8 * PScale)
           /\ t = "MEDIUM" <=> (10 * k > 4 * PScale /\ 10 * k <= 6 * PScale)
           /\ t = "LOW" <=> 10 * k <= 4 * PScale

\* A probability at most one grid step below the 0.8 edge, reported HIGH.
C4_Witness ==
    /\ last.op = "analyze"
    /\ ~last.raised
    /\ last.tier = Some("HIGH")
    /\ 8 * PScale - 10 * last.prob[1] < 10

\* C5: resolving an alert that is already RESOLVED raises no error and
\* changes no field of any alert record.
C5_ResolveIdempotent ==
    [][(/\ last'.op = "resolve"
        /\ \E i \in 1..Len(alerts) :
              /\ alerts[i].alert_id = last'.arg[1]
              /\ alerts[i].status = "RESOLVED")
       => (alerts' = alerts /\ ~last'.raised)]_vars

\* C6: a record is removed only by the bulk clear and only while RESOLVED;
\* the bulk clear leaves every OPEN record unchanged; a RESOLVED record never
\* returns to OPEN.
C6_OnlyClearRemovesResolved ==
    [][\A i \in 1..Len(alerts) :
          LET r == alerts[i]
          IN  /\ ~HasRowId(alerts', r.id) =>
                    (last'.op = "clear" /\ r.status = "RESOLVED")
              /\ (r.status = "OPEN" /\ last'.op = "clear") =>
                    \E j \in 1..Len(alerts') : alerts'[j] = r
              /\ r.status = "RESOLVED" =>
                    \A j \in 1..Len(alerts') :
                       alerts'[j].id = r.id => alerts'[j].status = "RESOLVED"]_vars

\* The bulk clear has acted: an earlier record is gone, an OPEN one remains.
C6_Witness ==
    /\ last.op = "clear"
    /\ ~HasRowId(alerts, 1)
    /\ \E i \in 1..Len(alerts) : alerts[i].status = "OPEN"

\* C7: no two persisted alerts share an alert_id; no operation changes the
\* alert_id of an existing record; a create_alert whose generated id is
\* already persisted fails and persists nothing.
C7_AlertIdUniqueImmutable ==
    /\ [](\A i, j \in 1..Len(alerts) :
             i # j => alerts[i].alert_id # alerts[j].alert_id)
    /\ [][/\ \A i \in 1..Len(alerts) : \A j \in 1..Len(alerts') :
                alerts'[j].id = alerts[i].id =>
                   alerts'[j].alert_id = alerts[i].alert_id
          /\ (/\ last'.op = "create"
              /\ last'.arg[1] \in AlertIdsOf(alerts))
             => (last'.raised /\ last'.ret = None /\ alerts' = alerts)]_vars

\* A create_alert has failed on an id that is persisted.
C7_Witness ==
    /\ last.op = "create"
    /\ last.raised
    /\ last.arg[1] \in AlertIdsOf(alerts)

\* C8: when the insert succeeds, create_alert returns the new id and the
\* alert is persisted with status OPEN, whatever the notification does: a
\* failed dispatch neither removes nor alters the record nor raises.
C8_DispatchFailureKeepsAlert ==
    [][(/\ last'.op = "create"
        /\ last'.db = "ok"
        /\ last'.arg[1] \notin AlertIdsOf(alerts)) =>
         /\ ~last'.raised
         /\ AppendedOne
         /\ LastRow(alerts').status = "OPEN"
         /\ LastRow(alerts').resolved_at = None]_vars

\* A create_alert whose webhook request ended in an exception returned its id.
C8_Witness ==
    /\ last.op = "create"
    /\ last.dispatch = "exception"
    /\ last.ret # None
    /\ \E i \in 1..Len(alerts) :
          alerts[i].alert_id = last.ret[1] /\ alerts[i].status = "OPEN"

\* C9: predict on a detector whose is_trained is false raises, returns no
\* probability and no explanation, and leaves the detector unchanged.
C9_PredictUntrainedRaises ==
    [][(last'.op = "predict" /\ ~is_trained) =>
         /\ last'.raised
         /\ last'.prob = None /\ last'.tier = None /\ last'.ret = None
         /\ UNCHANGED <<is_trained, vectorizer, classifier, model_loaded,
                        alerts, seq>>]_vars

C9_Witness ==
    /\ last.op = "predict"
    /\ last.raised
    /\ ~is_trained

\* C10: analyze_message on an engine for which no load_model has succeeded
\* raises and yields no score and no tier; model_loaded is set only by a
\* load_model call that returns.
C10_AnalyzeNeedsLoadedModel ==
    [][/\ (last'.op = "analyze" /\ ~model_loaded) =>
             /\ last'.raised
             /\ last'.prob = None /\ last'.score = None /\ last'.tier = None
       /\ (model_loaded' /\ ~model_loaded) =>
             (last'.op = "load" /\ ~last'.raised)]_vars

\* analyze_message has refused although the engine's detector is trained.
C10_Witness ==
    /\ last.op = "analyze"
    /\ last.raised
    /\ is_trained
    /\ ~model_loaded

\* C11: after a trained detector has been written with save_model, load_model
\* on that file in a fresh detector returns, sets is_trained, and the loaded
\* detector gives every probe text the probability the saved one gave it.
C11_SaveLoadRoundTrip ==
    [][(/\ last'.op = "detector_load"
        /\ ArtifactOf(file) = "trained"
        /\ ~is_trained /\ classifier = None)
       => /\ ~last'.raised
          /\ is_trained'
          /\ classifier' # None
          /\ \A t \in ProbeTexts :
                classifier'[1][t] = file[1].classifier[1][t]]_vars

\* C12: with a model loaded, batch_analyze returns one result per message in
\* input order; a message whose analysis raises yields risk_level UNKNOWN
\* and final_score 0, and every other message, those after it included, gets
\* the score and tier analyze_message gives it alone.
C12_BatchOneResultPerMessage ==
    (last.op = "batch" /\ model_loaded /\ is_trained) =>
       /\ ~last.raised
       /\ last.out # None
       /\ Len(last.out[1]) = Len(last.arg[1])
       /\ \A i \in 1..Len(last.arg[1]) :
             IF last.arg[1][i] = None
             THEN /\ last.out[1][i].risk_level = "UNKNOWN"
                  /\ last.out[1][i].final_score = 0
             ELSE /\ ~last.out[1][i].error
                  /\ last.out[1][i].probability = last.arg[1][i]
                  /\ last.out[1][i].final_score =
                        AnalysisReport(last.arg[1][i][1]).final_score
                  /\ last.out[1][i].risk_level =
                        AnalysisReport(last.arg[1][i][1]).risk_level

\* A batch whose first message raised and whose second was scored 40.
C12_Witness ==
    /\ last.op = "batch"
    /\ last.out # None
    /\ Len(last.arg[1]) = 2
    /\ last.arg[1][1] = None
    /\ last.out[1][1].risk_level = "UNKNOWN"
    /\ last.out[1][2].final_score = 40

\* C13: when the webhook URL is absent or does not start with the Slack hooks
\* prefix, is_configured is false, send_alert returns False without an HTTP
\* request, and create_alert makes no HTTP request either.
C13_UnconfiguredNeverPosts ==
    (webhook_url = None \/ ~StartsWithHooksPrefix(webhook_url[1])) =>
       /\ ~IsConfigured(webhook_url)
       /\ last.op = "send_alert" =>
             (~last.raised /\ last.out = Some(FALSE) /\ last.dispatch = "none")
       /\ last.op = "create" => last.dispatch = "none"

\* send_alert was called with a complete payload under a URL of another
\* service.
C13_Witness ==
    /\ last.op = "send_alert"
    /\ last.arg = Some("complete")
    /\ webhook_url = Some("https://example.com/hook")
    /\ last.out = Some(FALSE)

\* C14: send_alert never raises: a response with a status other than 200
\* (every non-2xx status among them), a transport error or timeout, and a
\* payload that cannot be formatted all yield False; True is returned only
\* after a request was made and answered with status 200.
C14_SendAlertNeverRaises ==
    last.op = "send_alert" =>
       /\ ~last.raised
       /\ last.out \in {Some(TRUE), Some(FALSE)}
       /\ last.dispatch \in {"non200", "exception"} => last.out = Some(FALSE)
       /\ last.arg = Some("incomplete") =>
             (last.out = Some(FALSE) /\ last.dispatch = "none")
       /\ last.out = Some(TRUE) => last.dispatch = "ok"

\* send_alert returned False after its request ended in an exception.
C14_Witness ==
    /\ last.op = "send_alert"
    /\ last.dispatch = "exception"
    /\ last.out = Some(FALSE)

\* C15: if persisting the record fails, because the database is unavailable
\* or the id violates the UNIQUE constraint, create_alert raises, returns no
\* id, leaves no record and makes no notification request; a notification
\* request is made only once the record is committed.
C15_FailedPersistNoAlertNoNotification ==
    /\ [][(/\ last'.op = "create"
            /\ \/ last'.db = "unavailable"
               \/ last'.arg[1] \in AlertIdsOf(alerts))
           => /\ last'.raised
              /\ last'.ret = None
              /\ alerts' = alerts
              /\ last'.dispatch = "none"]_vars
    /\ []((last.op = "create" /\ last.dispatch # "none") =>
             last.arg[1] \in AlertIdsOf(alerts))

\* create_alert met an unavailable database on a manager whose notifier is
\* configured, for an id that is not persisted.
C15_Witness ==
    /\ last.op = "create"
    /\ last.db = "unavailable"
    /\ last.raised
    /\ slack = "configured"
    /\ last.arg[1] \notin AlertIdsOf(alerts)

FeatureNames ==
    <<"text_length", "word_count", "sentence_count", "avg_sentence_length",
      "avg_word_length", "urgency_score", "authority_score",
      "scarcity_score", "social_proof_score", "info_request_score",
      "financial_score", "platform_migration_score", "question_marks",
      "exclamation_marks", "capital_ratio", "link_count",
      "unique_word_ratio", "long_word_count", "positive_emotion_score",
      "negative_emotion_score">>

NamesOf(fs) == [i \in 1..Len(fs) |-> fs[i].name]

\* The text holds no word: it is empty or all whitespace.
NoWords(text) == \A i \in 1..Len(text) : text[i] = " "

\* C17: for every text, the empty string included, extract_advanced_features
\* returns without error the same feature names in the same order, and no
\* feature value is negative.
C17_FeaturesTotalFixedNonNegative ==
    last.op = "extract" =>
       /\ ~last.raised
       /\ last.out # None
       /\ NamesOf(last.out[1]) = FeatureNames
       /\ \A i \in 1..Len(last.out[1]) :
             last.out[1][i].num >= 0 /\ last.out[1][i].den > 0

\* The extractor returned for the empty string.
C17_Witness ==
    /\ last.op = "extract"
    /\ last.arg = Some(<<>>)
    /\ last.out # None
    /\ Len(last.out[1]) = Len(FeatureNames)

\* C18 (as stated): for the empty string and for text with no words,
\* extract_advanced_features does not raise and every count and every ratio
\* it returns is 0.
C18_NoWordsAllZero ==
    (last.op = "extract" /\ NoWords(last.arg[1])) =>
       /\ ~last.raised
       /\ last.out # None
       /\ \A i \in 1..Len(last.out[1]) : last.out[1][i].num = 0

\* C18 (amended): for the empty string and for text with no words,
\* extract_advanced_features does not raise and every count and every ratio
\* it returns is 0, except sentence_count, which is 1, and text_length,
\* which is the number of whitespace characters.
C18_NoWordsZeroButSentenceCountAndLength ==
    (last.op = "extract" /\ NoWords(last.arg[1])) =>
       /\ ~last.raised
       /\ last.out # None
       /\ \A i \in 1..Len(last.out[1]) :
             LET v == last.out[1][i]
             IN  /\ v.den > 0
                 /\ v.num = IF v.name = "sentence_count" THEN 1
                            ELSE IF v.name = "text_length"
                                 THEN Len(last.arg[1])
                                 ELSE 0

\* The extractor returned for a text of two spaces.
C18_Witness ==
    /\ last.op = "extract"
    /\ last.arg = Some(<<" ", " ">>)
    /\ last.out # None
    /\ Feature(last.out[1], "sentence_count").num = 1

\* C19: for every message and every configured set of weights,
\* calculate_risk_score returns an integer risk_score with
\* 0 <= risk_score <= 100.
C19_RiskScoreWithin0And100 ==
    last.op = "calculate_risk_score" =>
       (last.out # None /\ last.out[1] \in 0..100)

\* The families _classify_threat_type looks for, in the order it looks.
ThreatFamilies ==
    <<[needle |-> "urgency", type |-> "Urgency-Based Phishing"],
      [needle |-> "authority", type |-> "Authority Impersonation"],
      [needle |-> "financial", type |-> "Financial Scam"],
      [needle |-> "platform migration", type |-> "Platform Migration Attack"],
      [needle |-> "personal information", type |-> "Information Harvesting"]>>

\* The types of the families that match an indicator list, in that order.
MatchedTypes(indicators) ==
    LET m == SelectSeq(ThreatFamilies,
                       LAMBDA f : AnyContains(indicators, f.needle))
    IN  [i \in 1..Len(m) |-> m[i].type]

Range(q) == {q[i] : i \in 1..Len(q)}

\* C20: the classification is a function of the indicator list: with the
\* matched families in the order urgency, authority, financial, platform
\* migration, personal information, primary_types is the first two of them,
\* or exactly ['Unclassified Social Engineering'] when none matches, never
\* empty and never longer than 2, and secondary_types is the remaining
\* matched families, disjoint from primary_types.
C20_ClassificationFromIndicators ==
    last.op = "classify" =>
       LET m == MatchedTypes(last.arg[1])
           r == last.out[1]
       IN  /\ Len(r.primary_types) \in 1..2
           /\ IF m = <<>>
              THEN r.primary_types = <<"Unclassified Social Engineering">>
              ELSE r.primary_types \o r.secondary_types = m
           /\ m = <<>> => r.secondary_types = <<>>
           /\ Len(m) >= 2 => Len(r.primary_types) = 2
           /\ Range(r.primary_types) \cap Range(r.secondary_types) = {}

\* Four families matched: two primary types, two secondary.
C20_Witness ==
    /\ last.op = "classify"
    /\ Len(MatchedTypes(last.arg[1])) = 4
    /\ Len(last.out[1].primary_types) = 2
    /\ Len(last.out[1].secondary_types) = 2

\* C21: get_recent_alerts(hours, severity) returns exactly the persisted
\* alerts created within the last `hours` hours and, when a severity is
\* given, of that severity, each once and newest first; alerts of either
\* status are returned and no record is modified.
C21_RecentAlertsWindowSeverityNewestFirst ==
    [][last'.op = "recent" =>
         LET hours == last'.arg[1].hours
             sev   == last'.arg[1].severity
             out   == last'.out[1]
         IN  /\ ~last'.raised
             /\ alerts' = alerts
             /\ Range(out) \subseteq Range(alerts)
             /\ \A i \in 1..Len(alerts) :
                   alerts[i] \in Range(out) <=>
                      /\ now - alerts[i].timestamp <= hours * HourSeconds
                      /\ sev # None => alerts[i].severity = sev[1]
             /\ Cardinality(Range(out)) = Len(out)
             /\ \A i, j \in 1..Len(out) :
                   i < j => out[i].timestamp >= out[j].timestamp]_vars

\* A query for the alerts of the current hour has returned a RESOLVED alert
\* and left out a persisted alert that is an hour old.
C21_Witness ==
    /\ last.op = "recent"
    /\ last.arg[1].hours = 0
    /\ \E i \in 1..Len(last.out[1]) : last.out[1][i].status = "RESOLVED"
    /\ \E i \in 1..Len(alerts) :
          /\ alerts[i] \notin Range(last.out[1])
          /\ now - alerts[i].timestamp >= HourSeconds

\* C22: a create_alert call makes at most one webhook request, and a request
\* is made only by the create_alert call that inserts the alert, for that
\* alert: no call, whether a later create_alert, a resolve or a clear, makes
\* a request for an alert that was persisted before it, so a notification
\* that failed is never sent again.
C22_NotificationAtMostOnce ==
    [][/\ last'.posts <= 1
       /\ (last'.posts = 0) <=> (last'.dispatch = "none")
       /\ last'.posts > 0 =>
             /\ last'.op = "create"
             /\ last'.arg[1] \notin AlertIdsOf(alerts)
             /\ AppendedOne]_vars

\* A create_alert whose one request failed or timed out, made after an
\* earlier alert has been resolved.
C22_Witness ==
    /\ last.op = "create"
    /\ last.dispatch \in {"non200", "exception"}
    /\ last.posts = 1
    /\ \E i \in 1..Len(alerts) : alerts[i].status = "RESOLVED"

\* C23: resolve(alert_id) raises no error and changes only the record with
\* that alert_id: for an id that matches no persisted alert every record is
\* left unchanged, and for an existing alert every other alert's fields are
\* left unchanged; no record is added or removed.
C23_ResolveChangesOnlyItsRecord ==
    [][last'.op = "resolve" =>
         /\ ~last'.raised
         /\ Len(alerts') = Len(alerts)
         /\ \A i \in 1..Len(alerts) :
               alerts[i].alert_id # last'.arg[1] => alerts'[i] = alerts[i]
         /\ last'.arg[1] \notin AlertIdsOf(alerts) => alerts' = alerts
         /\ seq' = seq]_vars

\* An alert has been resolved while another persisted alert stayed OPEN.
C23_Witness ==
    /\ last.op = "resolve"
    /\ \E i, j \in 1..Len(alerts) :
          /\ alerts[i].alert_id = last.arg[1]
          /\ alerts[i].status = "RESOLVED"
          /\ alerts[j].alert_id # last.arg[1]
          /\ alerts[j].status = "OPEN"

\* The confidence increment of each family of ThreatFamilies, in tenths.
FamilyIncrement ==
    [needle \in {ThreatFamilies[i].needle : i \in 1..Len(ThreatFamilies)} |->
        IF needle \in {"urgency", "authority"} THEN 3 ELSE 2]

\* The increments of the families that match an indicator list, summed.
MatchedIncrements(indicators) ==
    SumTo([i \in 1..Len(ThreatFamilies) |->
              IF AnyContains(indicators, ThreatFamilies[i].needle)
              THEN FamilyIncrement[ThreatFamilies[i].needle] ELSE 0],
          Len(ThreatFamilies))

\* C24: the classification confidence equals min(1.0, sum of the increments
\* of the matched families), 0.3 for urgency and for authority, 0.2 for each
\* of financial, platform migration and personal information; it is 0 when
\* no family matches and never exceeds 1.0, also when all five match.
C24_ConfidenceIsCappedSum ==
    last.op = "classify" =>
       LET sum == MatchedIncrements(last.arg[1])
           c   == last.out[1].confidence
       IN  /\ c = (IF sum <= 10 THEN sum ELSE 10)
           /\ c \in 0..10
           /\ MatchedTypes(last.arg[1]) = <<>> => c = 0

\* All five families matched: the increments sum to 1.2, the confidence is
\* 1.0.
C24_Witness ==
    /\ last.op = "classify"
    /\ Len(MatchedTypes(last.arg[1])) = 5
    /\ MatchedIncrements(last.arg[1]) = 12
    /\ last.out[1].confidence = 10

C26_LoadedIffTrainedUsable ==
    /\ [](model_loaded => is_trained)
    /\ [][(last'.op = "analyze" /\ is_trained) => ~last'.raised]_vars

\* C27: whenever is_trained is true, the vectorizer and the classifier were
\* fitted by the same completed training run: no state, also after a train
\* call that raised between the two fits on a trained detector, shows the
\* refitted vectorizer with the previous classifier while is_trained is true.
C27_TrainedMeansFittedByOneRun ==
    is_trained => (classifier # None /\ vectorizer.run = classifier)

\* The logged messages of a sender that reached the threat floor of 40.
ThreatMessages(url) ==
    SelectSeq(messages,
              LAMBDA m : m.sender_profile_url = url /\ m.risk_score >= 40)

\* C28: after any sequence of log_message calls a threats row exists for a
\* sender profile URL iff a message with risk_score >= 40 was logged for it;
\* its max_risk_score is the maximum risk_score of those messages, its
\* total_messages their count, its first_detected the time of the first of
\* them; every message is stored High iff its score >= 70, Medium iff
\* 40 <= score < 70, Low otherwise.
C28_ThreatsSummariseLoggedMessages ==
    /\ \A url \in SenderUrls :
          LET q    == ThreatMessages(url)
              rows == SelectSeq(threats,
                                LAMBDA r : r.sender_profile_url = url)
          IN  /\ Len(rows) = (IF q = <<>> THEN 0 ELSE 1)
              /\ q # <<>> =>
                    /\ rows[1].total_messages = Len(q)
                    /\ \A i \in 1..Len(q) :
                          q[i].risk_score <= rows[1].max_risk_score
                    /\ \E i \in 1..Len(q) :
                          q[i].risk_score = rows[1].max_risk_score
                    /\ rows[1].first_detected = q[1].timestamp
    /\ \A i \in 1..Len(messages) :
          LET m == messages[i]
          IN  /\ m.risk_level = "High" <=> m.risk_score >= 70
              /\ m.risk_level = "Medium" <=>
                    (40 <= m.risk_score /\ m.risk_score < 70)
              /\ m.risk_level = "Low" <=> m.risk_score < 40

\* C29: in every reachable state of the alert store each alert's status is
\* OPEN or RESOLVED and its resolved_at is set iff its status is RESOLVED;
\* an insert produces status OPEN with resolved_at unset, and a resolve sets
\* status RESOLVED and resolved_at together.
C29_ResolvedAtIffResolved ==
    /\ [](\A i \in 1..Len(alerts) :
             /\ alerts[i].status \in {"OPEN", "RESOLVED"}
             /\ alerts[i].resolved_at # None <=>
                   alerts[i].status = "RESOLVED")
    /\ [][/\ (last'.op \in {"create", "inject"}
               /\ Len(alerts') = Len(alerts) + 1) =>
                /\ LastRow(alerts').status = "OPEN"
                /\ LastRow(alerts').resolved_at = None
          /\ last'.op = "resolve" =>
                \A i \in 1..Len(alerts') :
                   alerts'[i].alert_id = last'.arg[1] =>
                      /\ alerts'[i].status = "RESOLVED"
                      /\ alerts'[i].resolved_at = Some(now')]_vars

\* The store holds an injected alert that is still OPEN, with resolved_at
\* unset, beside an alert that has been resolved.
C29_Witness ==
    /\ \E i \in 1..Len(alerts) :
          /\ alerts[i].risk_score = 94
          /\ alerts[i].status = "OPEN"
          /\ alerts[i].resolved_at = None
    /\ \E i \in 1..Len(alerts) :
          /\ alerts[i].status = "RESOLVED"
          /\ alerts[i].resolved_at # None

\* C30: every alert process_message_as_alert creates mirrors the analysis that
\* triggered it: its severity is the analysis' risk_level, its risk_score
\* the final_score, its threat_type the first primary threat type; the
\* primary types are never empty, so threat_type is never 'Unknown'.
C30_AlertMirrorsAnalysis ==
    [][(last'.op = "process" /\ Len(alerts') = Len(alerts) + 1) =>
          LET r == alerts'[Len(alerts')]
              c == last'.out[1]
          IN  /\ r.severity = last'.tier[1]
              /\ r.risk_score = last'.score[1]
              /\ c.primary_types # <<>>
              /\ r.threat_type = c.primary_types[1]
              /\ r.threat_type # "Unknown"]_vars

\* An alert made of a message with three threat families, filed under the
\* first of them.
C30_Witness ==
    /\ last.op = "process"
    /\ last.ret # None
    /\ Len(alerts) = 1
    /\ Len(last.out[1].primary_types) = 2
    /\ last.out[1].secondary_types # <<>>
    /\ alerts[1].threat_type = "Urgency-Based Phishing"
    /\ alerts[1].severity = "HIGH"

====
